---- MODULE Spec2Model ----
(***************************************************************************)
(* A model of hecigo/goredis: the ranking board (ranking.go) and the typed *)
(* accessor Get / Set / MSet (handler.go) over a Redis-compatible store.   *)
(* The store's commands are modelled by what Redis does for them; the      *)
(* go-redis client by what it returns (redis.Nil for a missing reply, the  *)
(* first command error from a transactional pipeline).                     *)
(***************************************************************************)
EXTENDS Integers, Sequences, FiniteSets, TLC

\* ------------------------------------------------------------------ bounds
NumMembers == 3
MaxScore == 2
MaxBatch == 2
MaxTtl == 1
MaxKeys == 2
NumWriters == 2

\* ------------------------------------------------------------ ranking.go
Upsert_GreaterThan == 0
Upsert_LessThan == 1

MemberNames == <<"a", "b", "c", "d", "e", "f">>
Members == {MemberNames[i] : i \in 1..NumMembers}
ScoreRange == 0..MaxScore
Deltas == (0 - MaxScore)..MaxScore
\* math.NaN() passed as a score or an increment: a number the store rejects
NaN == 0 - 1000
\* the variadic [kind] argument of Upsert / UpsertMulti
Kinds == {<<>>, <<Upsert_GreaterThan>>, <<Upsert_LessThan>>}
\* the variadic [orderBy] argument of Top
OrderBys == {<<>>, <<TRUE>>, <<FALSE>>}
TopNs == 0..(NumMembers + 1)

VARIABLES
  board,     \* the sorted set of the ranking board: member -> score
  boardTtl,  \* its expiration, 0 for none
  ret,       \* the last call on the board: its arguments and what it returned
  store,     \* the keys of the store the accessor works on: qualified key -> value
  ttl,       \* their expirations, 0 for none
  hret,      \* the last call of Get / Set / MSet: its arguments and what it returned
  calls      \* the calls in progress, step by step: client -> position and locals

rankingVars == <<board, boardTtl, ret>>

handlerVars == <<store, ttl, hret, calls>>

vars == <<board, boardTtl, ret, store, ttl, hret, calls>>

\* Redis orders the members of a sorted set by score, then by member bytes.
Lex(m) == CHOOSE i \in 1..Len(MemberNames) : MemberNames[i] = m

ZLess(z, x, y) == z[x] < z[y] \/ (z[x] = z[y] /\ Lex(x) < Lex(y))

\* 0-based rank of member m of z in ascending order
ZRank(z, m) == Cardinality({x \in DOMAIN z : ZLess(z, x, m)})

EmptyMap == [x \in {} |-> 0]

MapPut(f, k, v) == [x \in DOMAIN f \cup {k} |-> IF x = k THEN v ELSE f[x]]

MapDel(f, k) == [x \in DOMAIN f \ {k} |-> f[x]]

\* ZADD key [GT|LT] score member
ZAddArgs(z, member, score, gt, lt) ==
  IF member \notin DOMAIN z THEN MapPut(z, member, score)
  ELSE IF gt /\ ~(score > z[member]) THEN z
  ELSE IF lt /\ ~(score < z[member]) THEN z
  ELSE MapPut(z, member, score)

\* ZINCRBY key increment member: the new zset and the new score
ZIncrBy(z, member, increment) ==
  LET new == (IF member \in DOMAIN z THEN z[member] ELSE 0) + increment
  IN IF increment = NaN THEN [z |-> z, val |-> 0, err |-> "ERR value is not a valid float"]
     ELSE [z |-> MapPut(z, member, new), val |-> new, err |-> "nil"]

ZScore_Mut(z, member) ==
  IF member \in DOMAIN z THEN [z |-> MapDel(z, member), val |-> z[member], err |-> "nil"]
  ELSE [z |-> z, val |-> 0, err |-> "redis.Nil"]

\* ZSCORE key member: a nil reply is redis.Nil in the client
ZScore(z, member) ==
  IF member \in DOMAIN z THEN [z |-> z, val |-> z[member], err |-> "nil"]
  ELSE [z |-> z, val |-> 0, err |-> "redis.Nil"]

\* ZRANGE key start stop [REV] WITHSCORES: the members in rank order, a
\* negative index counting from the end of the set
ZRangeArgsWithScores(z, start, stop, rev) ==
  LET n == Cardinality(DOMAIN z)
      lo0 == IF start < 0 THEN n + start ELSE start
      hi0 == IF stop < 0 THEN n + stop ELSE stop
      lo == IF lo0 < 0 THEN 0 ELSE lo0
      hi == IF hi0 >= n THEN n - 1 ELSE hi0
      at(i) == CHOOSE m \in DOMAIN z :
                 ZRank(z, m) = (IF rev THEN n - 1 - i ELSE i)
  IN IF lo > hi \/ lo >= n THEN <<>>
     ELSE [j \in 1..(hi - lo + 1) |->
             [Member |-> at(lo + j - 1), Score |-> z[at(lo + j - 1)]]]

\* one command of a pipeline against the sorted set
ExecCmd(z, c) ==
  CASE c.name = "zadd" ->
         IF c.score = NaN THEN [z |-> z, val |-> 0, err |-> "ERR value is not a valid float"]
         ELSE [z |-> ZAddArgs(z, c.member, c.score, c.gt, c.lt), val |-> 0, err |-> "nil"]
    [] c.name = "zincrby" -> ZIncrBy(z, c.member, c.score)
    [] c.name = "zscore" -> ZScore(z, c.member)

RECURSIVE RunCmds(_, _, _)
RunCmds(z, cmds, done) ==
  IF cmds = <<>> THEN [z |-> z, res |-> done]
  ELSE LET r == ExecCmd(z, Head(cmds))
       IN RunCmds(r.z, Tail(cmds),
                  Append(done, [member |-> Head(cmds).member, val |-> r.val, err |-> r.err]))

RECURSIVE cmdsFirstErr(_)
cmdsFirstErr(res) ==
  IF res = <<>> THEN "nil"
  ELSE IF Head(res).err # "nil" THEN Head(res).err
  ELSE cmdsFirstErr(Tail(res))

\* MULTI ... EXEC: the commands run in submission order; the client returns
\* every command's reply and the first command's error, if any
TxPipelined(z, cmds) ==
  LET r == RunCmds(z, cmds, <<>>)
  IN [z |-> r.z, cmds |-> r.res, err |-> cmdsFirstErr(r.res)]

GT_Mut(kind) == Len(kind) > 0 /\ kind[1] = Upsert_GreaterThan

GT(kind) == Len(kind) = 0 \/ (Len(kind) > 0 /\ kind[1] = Upsert_GreaterThan)

LT(kind) == Len(kind) > 0 /\ kind[1] = Upsert_LessThan

Rev_Mut(orderBy) == Len(orderBy) > 0 /\ orderBy[1]

Rev(orderBy) == Len(orderBy) = 0 \/ (Len(orderBy) > 0 /\ orderBy[1])

Range(f) == {f[i] : i \in DOMAIN f}

\* the orders in which Go may range over a map member => score of at most
\* MaxBatch entries: every sequence of distinct members
Orders == {f \in UNION {[1..k -> Members] : k \in 0..MaxBatch} :
             \A i, j \in DOMAIN f : i # j => f[i] # f[j]}

MemberLists == UNION {[1..k -> Members] : k \in 0..MaxBatch}

NoRet ==
  [op |-> "none", member |-> "", score |-> 0, kind |-> <<>>, n |-> 0,
   orderBy |-> <<>>, req |-> EmptyMap, list |-> <<>>,
   isNil |-> TRUE, map |-> EmptyMap, num |-> 0, err |-> "nil"]

Upsert(member, score, kind) ==
  /\ ret.op = "none"
  /\ board' = ZAddArgs(board, member, score, GT(kind), LT(kind))
  /\ ret' = [NoRet EXCEPT !.op = "Upsert", !.member = member, !.score = score,
                          !.kind = kind, !.err = "nil"]
  /\ UNCHANGED boardTtl
  /\ UNCHANGED handlerVars

\* the map built from the replies of ZRANGE ... WITHSCORES
RECURSIVE ZToMap(_)
ZToMap(zs) ==
  IF zs = <<>> THEN EmptyMap
  ELSE MapPut(ZToMap(SubSeq(zs, 1, Len(zs) - 1)), zs[Len(zs)].Member, zs[Len(zs)].Score)

ResToMap_Mut(res) ==
  [m \in {res[i].member : i \in DOMAIN res} |-> res[1].val]

\* the map built from the replies of a pipeline, entry by entry
RECURSIVE ResToMap(_)
ResToMap(res) ==
  IF res = <<>> THEN EmptyMap
  ELSE MapPut(ResToMap(SubSeq(res, 1, Len(res) - 1)), res[Len(res)].member, res[Len(res)].val)

RECURSIVE ScoresToMap(_)
ScoresToMap(res) ==
  IF res = <<>> THEN EmptyMap
  ELSE MapPut(ScoresToMap(SubSeq(res, 1, Len(res) - 1)), res[Len(res)].member,
              IF res[Len(res)].err = "nil" THEN res[Len(res)].val ELSE 0)

UpsertMulti_Mut(members, kind, order) ==
  LET cmds == [i \in DOMAIN order |->
                 [name |-> "zadd", member |-> order[i], score |-> members[order[i]],
                  gt |-> FALSE, lt |-> FALSE]]
      r == TxPipelined(board, cmds)
  IN /\ ret.op = "none"
     /\ board' = r.z
     /\ ret' = [NoRet EXCEPT !.op = "UpsertMulti", !.req = members, !.kind = kind,
                             !.err = r.err]
     /\ UNCHANGED boardTtl
     /\ UNCHANGED handlerVars

UpsertMulti(members, kind, order) ==
  LET cmds == [i \in DOMAIN order |->
                 [name |-> "zadd", member |-> order[i], score |-> members[order[i]],
                  gt |-> GT(kind), lt |-> LT(kind)]]
      r == TxPipelined(board, cmds)
  IN /\ ret.op = "none"
     /\ board' = r.z
     /\ ret' = [NoRet EXCEPT !.op = "UpsertMulti", !.req = members, !.kind = kind,
                             !.err = r.err]
     /\ UNCHANGED boardTtl
     /\ UNCHANGED handlerVars

IncrBy(member, increment) ==
  LET r == ZIncrBy(board, member, increment)
  IN /\ ret.op = "none"
     /\ r.val \in ScoreRange
     /\ board' = r.z
     /\ ret' = [NoRet EXCEPT !.op = "IncrBy", !.member = member, !.score = increment,
                             !.num = r.val, !.err = r.err]
     /\ UNCHANGED boardTtl
     /\ UNCHANGED handlerVars

IncrByMulti(increments, order) ==
  LET cmds == [i \in DOMAIN order |->
                 [name |-> "zincrby", member |-> order[i], score |-> increments[order[i]]]]
      r == TxPipelined(board, cmds)
  IN /\ ret.op = "none"
     /\ \A m \in DOMAIN r.z : r.z[m] \in ScoreRange
     /\ board' = r.z
     /\ ret' = IF r.err # "nil"
               THEN [NoRet EXCEPT !.op = "IncrByMulti", !.req = increments,
                                  !.isNil = TRUE, !.err = r.err]
               ELSE [NoRet EXCEPT !.op = "IncrByMulti", !.req = increments,
                                  !.isNil = FALSE, !.map = ResToMap(r.cmds), !.err = "nil"]
     /\ UNCHANGED boardTtl
     /\ UNCHANGED handlerVars

Remove_Mut(member) ==
  /\ ret.op = "none"
  /\ board' = EmptyMap
  /\ ret' = [NoRet EXCEPT !.op = "Remove", !.member = member,
                          !.num = IF member \in DOMAIN board THEN 1 ELSE 0,
                          !.err = "nil"]
  /\ boardTtl' = 0
  /\ UNCHANGED handlerVars

\* ZREM key member; num is the reply (the number of members removed), which
\* the caller does not get
Remove(member) ==
  /\ ret.op = "none"
  /\ board' = MapDel(board, member)
  /\ ret' = [NoRet EXCEPT !.op = "Remove", !.member = member,
                          !.num = IF member \in DOMAIN board THEN 1 ELSE 0,
                          !.err = "nil"]
  /\ boardTtl' = IF DOMAIN board' = {} THEN 0 ELSE boardTtl
  /\ UNCHANGED handlerVars

Top(n, orderBy) ==
  LET z == ZRangeArgsWithScores(board, 0, n - 1, Rev(orderBy))
  IN /\ ret.op = "none"
     /\ ret' = [NoRet EXCEPT !.op = "Top", !.n = n, !.orderBy = orderBy,
                             !.isNil = FALSE, !.map = ZToMap(z), !.err = "nil"]
     /\ UNCHANGED <<board, boardTtl>>
     /\ UNCHANGED handlerVars

Score_Mut(member) ==
  LET r == ZScore(board, member)
  IN /\ ret.op = "none"
     /\ ret' = [NoRet EXCEPT !.op = "Score", !.member = member, !.num = r.val,
                             !.err = r.err]
     /\ UNCHANGED <<board, boardTtl>>
     /\ UNCHANGED handlerVars

Score(member) ==
  LET r == ZScore(board, member)
  IN /\ ret.op = "none"
     /\ ret' = IF r.err = "redis.Nil"
               THEN [NoRet EXCEPT !.op = "Score", !.member = member, !.num = 0, !.err = "nil"]
               ELSE [NoRet EXCEPT !.op = "Score", !.member = member, !.num = r.val,
                                  !.err = r.err]
     /\ UNCHANGED <<board, boardTtl>>
     /\ UNCHANGED handlerVars

Scores(members) ==
  LET cmds == [i \in DOMAIN members |-> [name |-> "zscore", member |-> members[i]]]
      r == TxPipelined(board, cmds)
  IN /\ ret.op = "none"
     /\ ret' = IF r.err # "nil"
               THEN IF r.err = "redis.Nil"
                    THEN [NoRet EXCEPT !.op = "Scores", !.list = members,
                                       !.isNil = TRUE, !.err = "nil"]
                    ELSE [NoRet EXCEPT !.op = "Scores", !.list = members,
                                       !.isNil = TRUE, !.err = r.err]
               ELSE [NoRet EXCEPT !.op = "Scores", !.list = members, !.isNil = FALSE,
                                  !.map = ScoresToMap(r.cmds), !.err = "nil"]
     /\ board' = r.z
     /\ UNCHANGED boardTtl
     /\ UNCHANGED handlerVars

Delete ==
  /\ ret.op = "none"
  /\ board' = EmptyMap
  /\ boardTtl' = 0
  /\ ret' = [NoRet EXCEPT !.op = "Delete", !.err = "nil"]
  /\ UNCHANGED handlerVars

\* EXPIRE key seconds: no effect on a missing key, and a ttl of 0 deletes it
Expire(d) ==
  /\ ret.op = "none"
  /\ board' = IF d = 0 THEN EmptyMap ELSE board
  /\ boardTtl' = IF DOMAIN board = {} \/ d = 0 THEN 0 ELSE d
  /\ ret' = [NoRet EXCEPT !.op = "Expire", !.n = d, !.err = "nil"]
  /\ UNCHANGED handlerVars

\* the caller takes the returned values; the next call can start
Return ==
  /\ ret.op # "none"
  /\ ret' = NoRet
  /\ UNCHANGED <<board, boardTtl>>
  /\ UNCHANGED handlerVars

\* ------------------------------------------------------------ handler.go
HASH == "hash"
LIST == "list"
SET == "set"
ZSET == "zset"
\* ctx.Value(CtxKey_DataType) of a context that carries no data type
NoHint == ""
Hints == {NoHint, HASH, LIST, SET, ZSET}

\* GetConfig(ctx).KeyPrefix; the second logical key begins with the prefix
KeyPrefix == "p"
LogicalKeys == {"a", "p.a"}

TrimPrefix_Mut(str, prefix) ==
  LET strip(w) == IF Len(w) >= Len(prefix) /\ SubSeq(w, 1, Len(prefix)) = prefix
                  THEN SubSeq(w, Len(prefix) + 1, Len(w))
                  ELSE w
  IN strip(strip(str))

\* strings.TrimPrefix
TrimPrefix(str, prefix) ==
  IF Len(str) >= Len(prefix) /\ SubSeq(str, 1, Len(prefix)) = prefix
  THEN SubSeq(str, Len(prefix) + 1, Len(str))
  ELSE str

\* addKeyPrefix writes the qualified keys into the slice it was given
addKeyPrefix(key) == [i \in DOMAIN key |-> KeyPrefix \o "." \o key[i]]

removeKeyPrefix_Mut(key) == key

\* removeKeyPrefix writes the logical keys back into the slice
removeKeyPrefix(key) == [i \in DOMAIN key |-> TrimPrefix(key[i], KeyPrefix \o ".")]

QKeys == {addKeyPrefix(<<k>>)[1] : k \in LogicalKeys}

\* ---- the values of the store
NoValue ==
  [kind |-> "none", str |-> "", hash |-> EmptyMap, list |-> <<>>, set |-> {},
   zset |-> EmptyMap]

StrValue(w) == [NoValue EXCEPT !.kind = "string", !.str = w]

HashValue(h) == [NoValue EXCEPT !.kind = "hash", !.hash = h]

ListValue(l) == [NoValue EXCEPT !.kind = "list", !.list = l]

SetValue(S) == [NoValue EXCEPT !.kind = "set", !.set = S]

ZSetValue(z) == [NoValue EXCEPT !.kind = "zset", !.zset = z]

\* ---- the Go values the accessor is called with and returns
GoNil == [type |-> "nil", s |-> "", i |-> 0, m |-> EmptyMap, l |-> <<>>, li |-> <<>>]

GoString(w) == [GoNil EXCEPT !.type = "string", !.s = w]

GoInt(n) == [GoNil EXCEPT !.type = "int", !.i = n]

\* a map or struct with string fields, of the named type
GoMap(type, m) == [GoNil EXCEPT !.type = type, !.m = m]

\* a slice with string elements, of the named type
GoSlice(type, l) == [GoNil EXCEPT !.type = type, !.l = l]

GoIntSlice(li) == [GoNil EXCEPT !.type = "[]int", !.li = li]

\* a []byte, by its text
GoBytes(w) == [GoNil EXCEPT !.type = "[]byte", !.s = w]

\* the fields of the struct type (all strings, as in the tests' Geo)
StructFields == {"f", "g"}

\* reflect.TypeOf(x).Kind()
Kind(type) ==
  CASE type = "string" -> "String"
    [] type = "int" -> "Int"
    [] type = "struct" -> "Struct"
    [] type \in {"map[string]string", "map[string]interface{}"} -> "Map"
    [] type \in {"[]string", "[]int", "[]interface{}", "[]byte"} -> "Slice"
    [] type = "interface{}" -> "Interface"

\* the decimal text of the integers of the model
IntText == <<"0", "1", "2">>

FormatInt(n) == IntText[n + 1]

IsIntText(w) == \E n \in DOMAIN IntText : IntText[n] = w

ParseInt(w) == (CHOOSE n \in DOMAIN IntText : IntText[n] = w) - 1

\* go-redis writes a command argument: text, bytes and numbers as text, and
\* any other type only if it implements encoding.BinaryMarshaler
AppendArg(v) ==
  CASE v.type \in {"string", "[]byte"} -> [w |-> v.s, err |-> "nil"]
    [] v.type = "int" -> [w |-> FormatInt(v.i), err |-> "nil"]
    [] OTHER -> [w |-> "", err |-> "redis: can't marshal"]

\* ---- the commands of the store, on db = [store, ttl]
CmdGet(db, k) ==
  CASE db.store[k].kind = "none" -> [w |-> "", err |-> "redis.Nil"]
    [] db.store[k].kind = "string" -> [w |-> db.store[k].str, err |-> "nil"]
    [] OTHER -> [w |-> "", err |-> "WRONGTYPE"]

\* MGET replies nil for a key that is missing or holds no string
CmdMGet(db, ks) ==
  [i \in DOMAIN ks |->
     IF db.store[ks[i]].kind = "string"
     THEN [isNil |-> FALSE, w |-> db.store[ks[i]].str]
     ELSE [isNil |-> TRUE, w |-> ""]]

\* SET key value [EX expiration]: replaces any value and its expiration
CmdSet(db, k, w, expiration) ==
  [db |-> [store |-> [db.store EXCEPT ![k] = StrValue(w)],
           ttl |-> [db.ttl EXCEPT ![k] = expiration]],
   err |-> "nil"]

\* MSET key value ...: kv maps qualified keys to text
CmdMSet(db, kv) ==
  IF DOMAIN kv = {} THEN [db |-> db, err |-> "ERR wrong number of arguments"]
  ELSE [db |-> [store |-> [k \in DOMAIN db.store |->
                             IF k \in DOMAIN kv THEN StrValue(kv[k]) ELSE db.store[k]],
                ttl |-> [k \in DOMAIN db.ttl |->
                           IF k \in DOMAIN kv THEN 0 ELSE db.ttl[k]]],
        err |-> "nil"]

CmdHGetAll(db, k) ==
  CASE db.store[k].kind = "none" -> [h |-> EmptyMap, err |-> "nil"]
    [] db.store[k].kind = "hash" -> [h |-> db.store[k].hash, err |-> "nil"]
    [] OTHER -> [h |-> EmptyMap, err |-> "WRONGTYPE"]

\* HMSET key field value ...: sets the given fields and keeps the others
CmdHMSet(db, k, h) ==
  CASE DOMAIN h = {} -> [db |-> db, err |-> "ERR wrong number of arguments"]
    [] db.store[k].kind \notin {"none", "hash"} -> [db |-> db, err |-> "WRONGTYPE"]
    [] OTHER ->
         [db |-> [db EXCEPT !.store[k] =
                    HashValue([f \in DOMAIN db.store[k].hash \cup DOMAIN h |->
                                 IF f \in DOMAIN h THEN h[f] ELSE db.store[k].hash[f]])],
          err |-> "nil"]

CmdDel_Mut(db, k) == [db |-> db, err |-> "nil"]

CmdDel(db, k) ==
  [db |-> [store |-> [db.store EXCEPT ![k] = NoValue],
           ttl |-> [db.ttl EXCEPT ![k] = 0]],
   err |-> "nil"]

CmdRPush(db, k, l) ==
  CASE l = <<>> -> [db |-> db, err |-> "ERR wrong number of arguments"]
    [] db.store[k].kind \notin {"none", "list"} -> [db |-> db, err |-> "WRONGTYPE"]
    [] OTHER -> [db |-> [db EXCEPT !.store[k] = ListValue(db.store[k].list \o l)],
                 err |-> "nil"]

CmdSAdd(db, k, l) ==
  CASE l = <<>> -> [db |-> db, err |-> "ERR wrong number of arguments"]
    [] db.store[k].kind \notin {"none", "set"} -> [db |-> db, err |-> "WRONGTYPE"]
    [] OTHER -> [db |-> [db EXCEPT !.store[k] = SetValue(db.store[k].set \cup Range(l))],
                 err |-> "nil"]

\* the elements lo..hi (0-based, negative from the end) of a sequence
SliceRange(l, start, stop) ==
  LET n == Len(l)
      lo0 == IF start < 0 THEN n + start ELSE start
      hi0 == IF stop < 0 THEN n + stop ELSE stop
      lo == IF lo0 < 0 THEN 0 ELSE lo0
      hi == IF hi0 >= n THEN n - 1 ELSE hi0
  IN IF lo > hi \/ lo >= n THEN <<>> ELSE SubSeq(l, lo + 1, hi + 1)

CmdLRange(db, k, start, stop) ==
  CASE db.store[k].kind = "none" -> [l |-> <<>>, err |-> "nil"]
    [] db.store[k].kind = "list" ->
         [l |-> SliceRange(db.store[k].list, start, stop), err |-> "nil"]
    [] OTHER -> [l |-> <<>>, err |-> "WRONGTYPE"]

\* the elements of S in the order of the sequence ord (which lists them all)
RECURSIVE InOrder(_, _)
InOrder(S, ord) ==
  IF ord = <<>> THEN <<>>
  ELSE IF Head(ord) \in S THEN <<Head(ord)>> \o InOrder(S, Tail(ord))
  ELSE InOrder(S, Tail(ord))

\* SMEMBERS replies the elements in an order the store chooses (ord)
CmdSMembers(db, k, ord) ==
  CASE db.store[k].kind = "none" -> [l |-> <<>>, err |-> "nil"]
    [] db.store[k].kind = "set" -> [l |-> InOrder(db.store[k].set, ord), err |-> "nil"]
    [] OTHER -> [l |-> <<>>, err |-> "WRONGTYPE"]

\* ZRANGE key start stop [REV]: the members only
CmdZRangeArgs(db, k, start, stop, rev) ==
  CASE db.store[k].kind = "none" -> [l |-> <<>>, err |-> "nil"]
    [] db.store[k].kind = "zset" ->
         [l |-> LET zs == ZRangeArgsWithScores(db.store[k].zset, start, stop, rev)
                IN [i \in DOMAIN zs |-> zs[i].Member],
          err |-> "nil"]
    [] OTHER -> [l |-> <<>>, err |-> "WRONGTYPE"]

\* EXPIRE key seconds: false for a missing key; 0 seconds deletes the key
CmdExpire(db, k, expiration) ==
  IF db.store[k].kind = "none" THEN [db |-> db, status |-> FALSE, err |-> "nil"]
  ELSE IF expiration = 0 THEN [db |-> CmdDel(db, k).db, status |-> TRUE, err |-> "nil"]
  ELSE [db |-> [db EXCEPT !.ttl[k] = expiration], status |-> TRUE, err |-> "nil"]

\* ---- what Get returns: a single value or a mapping, and the key slice
\* as the call leaves it
NilEntry == [isNil |-> TRUE, val |-> GoNil]

Entry(v) == [isNil |-> FALSE, val |-> v]

NilRes(err, keys) ==
  [isNil |-> TRUE, val |-> GoNil, isMap |-> FALSE, map |-> EmptyMap, err |-> err,
   keys |-> keys]

ValRes(v, keys) ==
  [isNil |-> FALSE, val |-> v, isMap |-> FALSE, map |-> EmptyMap, err |-> "nil",
   keys |-> keys]

MapRes(m, keys) ==
  [isNil |-> FALSE, val |-> GoNil, isMap |-> TRUE, map |-> m, err |-> "nil",
   keys |-> keys]

\* the first error of the replies of a pipeline
RECURSIVE FirstErr(_)
FirstErr(replies) ==
  IF replies = <<>> THEN "nil"
  ELSE IF Head(replies).err # "nil" THEN Head(replies).err
  ELSE FirstErr(Tail(replies))

\* goutils.StrConv[T]: text to T
StrConv(T, w) ==
  CASE T = "string" -> [val |-> GoString(w), err |-> "nil"]
    [] T = "[]byte" -> [val |-> GoBytes(w), err |-> "nil"]
    [] T = "int" -> IF IsIntText(w) THEN [val |-> GoInt(ParseInt(w)), err |-> "nil"]
                    ELSE [val |-> GoInt(0), err |-> "decode"]
    [] OTHER -> [val |-> GoNil, err |-> "decode"]

\* goutils.MapPtrStrConv[T]: every non-nil text to T, nil kept
MapPtrStrConv(T, m, keys) ==
  IF \E k \in DOMAIN m : ~m[k].isNil /\ StrConv(T, m[k].val.s).err # "nil"
  THEN NilRes("decode", keys)
  ELSE MapRes([k \in DOMAIN m |->
                 IF m[k].isNil THEN NilEntry ELSE Entry(StrConv(T, m[k].val.s).val)],
              keys)

\* goutils.Unmarshal[T] / goutils.MapStrConv[T] of the reply of HGETALL
DecodeHash(T, h) ==
  IF T = "struct"
  THEN GoMap(T, [f \in StructFields |-> IF f \in DOMAIN h THEN h[f] ELSE ""])
  ELSE GoMap(T, h)

\* goutils.ReflectSliceStrConv and goutils.Unmarshal[T] of a list of text
DecodeSlice(T, l) ==
  IF T = "[]int"
  THEN IF \A i \in DOMAIN l : IsIntText(l[i])
       THEN [val |-> GoIntSlice([i \in DOMAIN l |-> ParseInt(l[i])]), err |-> "nil"]
       ELSE [val |-> GoNil, err |-> "decode"]
  ELSE [val |-> GoSlice(T, l), err |-> "nil"]

\* the mapping a multi-key read builds: logical key -> entry of its reply
RECURSIVE KeyedMap(_, _)
KeyedMap(keys, entries) ==
  IF keys = <<>> THEN EmptyMap
  ELSE MapPut(KeyedMap(SubSeq(keys, 1, Len(keys) - 1), SubSeq(entries, 1, Len(keys) - 1)),
              keys[Len(keys)], entries[Len(keys)])

getString(db, keys) ==
  IF Len(keys) = 0 THEN NilRes("key is empty", keys)
  ELSE IF Len(keys) = 1
  THEN LET qkeys == addKeyPrefix(keys)
           r == CmdGet(db, qkeys[1])
       IN IF r.err # "nil"
          THEN IF r.err = "redis.Nil" THEN NilRes("nil", qkeys) ELSE NilRes(r.err, qkeys)
          ELSE ValRes(GoString(r.w), qkeys)
  ELSE LET qkeys == addKeyPrefix(keys)
           val == CmdMGet(db, qkeys)
           lkeys == removeKeyPrefix(qkeys)
       IN MapRes(KeyedMap(lkeys, [i \in DOMAIN val |->
                                    IF val[i].isNil THEN NilEntry
                                    ELSE Entry(GoString(val[i].w))]),
                 lkeys)

getVariousKind(T, db, keys) ==
  LET val == getString(db, keys)
  IN IF val.err # "nil" THEN NilRes(val.err, val.keys)
     ELSE IF val.isNil
     THEN NilRes("result type is not string or map[string]string", val.keys)
     ELSE IF ~val.isMap
     THEN LET c == StrConv(T, val.val.s)
          IN IF c.err # "nil" THEN [ValRes(c.val, val.keys) EXCEPT !.err = c.err]
             ELSE ValRes(c.val, val.keys)
     ELSE MapPtrStrConv(T, val.map, val.keys)

getHash(T, db, keys) ==
  IF Len(keys) = 0 THEN NilRes("key is empty", keys)
  ELSE IF Len(keys) = 1
  THEN LET qkeys == addKeyPrefix(keys)
           r == CmdHGetAll(db, qkeys[1])
       IN IF r.err # "nil" THEN NilRes(r.err, qkeys)
          ELSE ValRes(DecodeHash(T, r.h), qkeys)
  ELSE LET qkeys == addKeyPrefix(keys)
           cmds == [i \in DOMAIN qkeys |-> CmdHGetAll(db, qkeys[i])]
           err == FirstErr(cmds)
           lkeys == removeKeyPrefix(qkeys)
       IN IF err # "nil" THEN NilRes(err, qkeys)
          ELSE MapRes(KeyedMap(lkeys, [i \in DOMAIN cmds |->
                                         IF DOMAIN cmds[i].h = {} THEN NilEntry
                                         ELSE Entry(DecodeHash(T, cmds[i].h))]),
                      lkeys)

redisCmdToSlice(T, cmd, keys) ==
  IF cmd.err # "nil"
  THEN IF cmd.err = "redis.Nil" THEN NilRes("nil", keys) ELSE NilRes(cmd.err, keys)
  ELSE LET c == DecodeSlice(T, cmd.l)
       IN IF c.err # "nil" THEN NilRes(c.err, keys) ELSE ValRes(c.val, keys)

redisCmdToMap(T, keys, cmds, connErr) ==
  IF connErr # "nil"
  THEN IF connErr = "redis.Nil" THEN NilRes("nil", keys) ELSE NilRes(connErr, keys)
  ELSE LET lkeys == removeKeyPrefix(keys)
       IN MapRes(KeyedMap(lkeys, [i \in DOMAIN cmds |->
                                    IF cmds[i].err # "nil" THEN NilEntry
                                    ELSE IF Len(cmds[i].l) = 0 THEN NilEntry
                                    ELSE IF DecodeSlice(T, cmds[i].l).err # "nil"
                                    THEN NilEntry
                                    ELSE Entry(DecodeSlice(T, cmds[i].l).val)]),
                 lkeys)

\* the context of the model carries no CtxKey_SliceStart / CtxKey_SliceStop /
\* CtxKey_SliceReverse: the whole list, the sorted set by descending score
getList(T, db, keys) ==
  IF Len(keys) = 0 THEN NilRes("key is empty", keys)
  ELSE LET qkeys == addKeyPrefix(keys)
           cmds == [i \in DOMAIN qkeys |-> CmdLRange(db, qkeys[i], 0, 0 - 1)]
       IN IF Len(keys) = 1 THEN redisCmdToSlice(T, cmds[1], qkeys)
          ELSE redisCmdToMap(T, qkeys, cmds, FirstErr(cmds))

getSet(T, db, keys, ord) ==
  IF Len(keys) = 0 THEN NilRes("key is empty", keys)
  ELSE LET qkeys == addKeyPrefix(keys)
           cmds == [i \in DOMAIN qkeys |-> CmdSMembers(db, qkeys[i], ord)]
       IN IF Len(keys) = 1 THEN redisCmdToSlice(T, cmds[1], qkeys)
          ELSE redisCmdToMap(T, qkeys, cmds, FirstErr(cmds))

getSortedSet(T, db, keys) ==
  IF Len(keys) = 0 THEN NilRes("key is empty", keys)
  ELSE LET qkeys == addKeyPrefix(keys)
           cmds == [i \in DOMAIN qkeys |-> CmdZRangeArgs(db, qkeys[i], 0, 0 - 1, TRUE)]
       IN IF Len(keys) = 1 THEN redisCmdToSlice(T, cmds[1], qkeys)
          ELSE redisCmdToMap(T, qkeys, cmds, FirstErr(cmds))

\* Get[T](ctx, keys...): hint is ctx.Value(CtxKey_DataType)
Get(T, hint, db, keys, ord) ==
  IF Len(keys) = 0 THEN NilRes("keys is empty", keys)
  ELSE CASE Kind(T) = "String" -> getString(db, keys)
         [] Kind(T) \in {"Map", "Struct"} ->
              IF hint = HASH THEN getHash(T, db, keys)
              ELSE getVariousKind(T, db, keys)
         [] Kind(T) = "Slice" ->
              CASE hint = SET -> getSet(T, db, keys, ord)
                [] hint = ZSET -> getSortedSet(T, db, keys)
                [] hint = LIST -> getList(T, db, keys)
                [] OTHER -> getVariousKind(T, db, keys)
         [] OTHER -> getVariousKind(T, db, keys)

\* ---- writes: the error the call returns ("panic" when it does not return)
\* and the store it leaves
SetRes(err, db) == [err |-> err, db |-> db]

\* expi of Set and MSet
Expi(expiration) == IF Len(expiration) > 1 THEN expiration[1] ELSE 0

setExpiration(db, key, expiration) ==
  IF expiration = 0 THEN SetRes("nil", db)
  ELSE LET r == CmdExpire(db, key, expiration)
       IN IF r.err # "nil" THEN SetRes(r.err, r.db)
          ELSE IF ~r.status THEN SetRes("redis set status is not OK", r.db)
          ELSE SetRes("nil", r.db)

setVariousKind(db, key, value, expiration) ==
  LET qkey == addKeyPrefix(<<key>>)[1]
      arg == AppendArg(value)
  IN IF arg.err # "nil" THEN SetRes(arg.err, db)
     ELSE SetRes("nil", CmdSet(db, qkey, arg.w, expiration).db)

setMultiVariousKind(db, keyValues, expiration) ==
  IF \E k \in DOMAIN keyValues : AppendArg(keyValues[k]).err # "nil"
  THEN SetRes("redis: can't marshal", db)
  ELSE LET r == CmdMSet(db, [q \in {addKeyPrefix(<<k>>)[1] : k \in DOMAIN keyValues} |->
                              AppendArg(keyValues[removeKeyPrefix(<<q>>)[1]]).w])
       IN SetRes(r.err, r.db)

\* the map and struct values of the model have text fields, which
\* goutils.Unmarshal[map[string]interface{}] keeps
setHash(db, key, value, expiration) ==
  LET temp == value.m
      qkey == addKeyPrefix(<<key>>)[1]
      r == CmdHMSet(db, qkey, temp)
  IN IF r.err # "nil" THEN SetRes(r.err, db)
     ELSE setExpiration(r.db, qkey, expiration)

setList(db, key, value, expiration) ==
  IF value.type # "[]interface{}" THEN SetRes("panic", db)
  ELSE LET qkey == addKeyPrefix(<<key>>)[1]
           d == CmdDel(db, qkey)
           r == CmdRPush(d.db, qkey, value.l)
       IN IF d.err # "nil" THEN SetRes(d.err, db)
          ELSE IF r.err # "nil" THEN SetRes(r.err, d.db)
          ELSE setExpiration(r.db, qkey, expiration)

setSet(db, key, value, expiration) ==
  IF value.type # "[]interface{}" THEN SetRes("panic", db)
  ELSE LET qkey == addKeyPrefix(<<key>>)[1]
           d == CmdDel(db, qkey)
           r == CmdSAdd(d.db, qkey, value.l)
       IN IF d.err # "nil" THEN SetRes(d.err, db)
          ELSE IF r.err # "nil" THEN SetRes(r.err, d.db)
          ELSE setExpiration(r.db, qkey, expiration)

\* temp is declared and never made: the first temp[key] = val does not return;
\* an empty batch is an empty pipeline
setMultiHash(db, keyValues, expiration) ==
  IF DOMAIN keyValues = {} THEN SetRes("nil", db) ELSE SetRes("panic", db)

setMultiList(db, keyValues, expiration) ==
  IF DOMAIN keyValues = {} THEN SetRes("nil", db) ELSE SetRes("panic", db)

setMultiSet(db, keyValues, expiration) ==
  IF DOMAIN keyValues = {} THEN SetRes("nil", db) ELSE SetRes("panic", db)

Set_Mut(hint, db, key, value, expiration) ==
  IF key = "" THEN SetRes("key is empty", db)
  ELSE IF value.type = "nil" THEN SetRes("value is nil", db)
  ELSE LET expi == Expi(expiration)
       IN CASE Kind(value.type) \in {"String", "Map", "Struct"} ->
                 IF hint = HASH THEN setHash(db, key, value, expi)
                 ELSE setVariousKind(db, key, value, expi)
            [] Kind(value.type) = "Slice" ->
                 CASE hint = SET -> setSet(db, key, value, expi)
                   [] hint = LIST -> setList(db, key, value, expi)
                   [] OTHER -> setVariousKind(db, key, value, expi)
            [] OTHER -> setVariousKind(db, key, value, expi)

Set_MutNil(hint, db, key, value, expiration) ==
  IF key = "" THEN SetRes("key is empty", db)
  ELSE IF value.type = "nil"
  THEN setVariousKind(db, key, GoString(""), Expi(expiration))
  ELSE LET expi == Expi(expiration)
       IN CASE Kind(value.type) = "String" -> setVariousKind(db, key, value, expi)
            [] Kind(value.type) \in {"Map", "Struct"} ->
                 IF hint = HASH THEN setHash(db, key, value, expi)
                 ELSE setVariousKind(db, key, value, expi)
            [] Kind(value.type) = "Slice" ->
                 CASE hint = SET -> setSet(db, key, value, expi)
                   [] hint = LIST -> setList(db, key, value, expi)
                   [] OTHER -> setVariousKind(db, key, value, expi)
            [] OTHER -> setVariousKind(db, key, value, expi)

\* Set(ctx, key, value, expiration...)
Set(hint, db, key, value, expiration) ==
  IF key = "" THEN SetRes("key is empty", db)
  ELSE IF value.type = "nil" THEN SetRes("value is nil", db)
  ELSE LET expi == Expi(expiration)
       IN CASE Kind(value.type) = "String" -> setVariousKind(db, key, value, expi)
            [] Kind(value.type) \in {"Map", "Struct"} ->
                 IF hint = HASH THEN setHash(db, key, value, expi)
                 ELSE setVariousKind(db, key, value, expi)
            [] Kind(value.type) = "Slice" ->
                 CASE hint = SET -> setSet(db, key, value, expi)
                   [] hint = LIST -> setList(db, key, value, expi)
                   [] OTHER -> setVariousKind(db, key, value, expi)
            [] OTHER -> setVariousKind(db, key, value, expi)

\* reflect.TypeOf(keyValues).Elem().Kind() of a map[string]interface{}
ElemKind(keyValues) == Kind("interface{}")

\* MSet(ctx, keyValues, expiration...)
MSet(hint, db, keyValues, expiration) ==
  LET expi == Expi(expiration)
      elKind == ElemKind(keyValues)
  IN CASE elKind = "String" -> setMultiVariousKind(db, keyValues, expi)
       [] elKind \in {"Map", "Struct"} ->
            IF hint = HASH THEN setMultiHash(db, keyValues, expi)
            ELSE setMultiVariousKind(db, keyValues, expi)
       [] elKind = "Slice" ->
            CASE hint = SET -> setMultiSet(db, keyValues, expi)
              [] hint = LIST -> setMultiList(db, keyValues, expi)
              [] OTHER -> setMultiVariousKind(db, keyValues, expi)
       [] OTHER -> setMultiVariousKind(db, keyValues, expi)

\* ---- the calls of the model
Types == {"string", "int", "map[string]interface{}", "struct", "[]interface{}", "[]int"}

Values ==
  {GoNil, GoString("x"), GoInt(1),
   GoMap("map[string]interface{}", MapPut(EmptyMap, "f", "x")),
   GoMap("map[string]interface{}", MapPut(EmptyMap, "g", "1")),
   GoMap("struct", [f \in StructFields |-> IF f = "f" THEN "x" ELSE "1"]),
   GoSlice("[]interface{}", <<>>), GoSlice("[]interface{}", <<"x">>),
   GoSlice("[]interface{}", <<"1", "x">>), GoSlice("[]string", <<"x">>),
   GoBytes("x")}

BatchValues ==
  {GoString("x"), GoMap("map[string]interface{}", MapPut(EmptyMap, "f", "x")),
   GoSlice("[]interface{}", <<"x">>)}

\* keys... of Get: up to MaxKeys logical keys, repeats allowed
KeyLists == UNION {[1..n -> LogicalKeys] : n \in 0..MaxKeys}

SetKeys == LogicalKeys \cup {""}

Batches == UNION {[S -> BatchValues] : S \in SUBSET LogicalKeys}

\* expiration... of Set and MSet
Expirations == {<<>>} \cup UNION {[1..n -> 1..MaxTtl] : n \in 1..2}

\* the orders in which SMEMBERS can reply the elements of a set
ElemOrders == {<<"1", "x">>, <<"x", "1">>}

\* a board of the ranking under the second key of the store
BoardValue == ZSetValue(MapPut(MapPut(EmptyMap, "a", 1), "b", 2))

NoHRet ==
  [op |-> "none", T |-> "", hint |-> NoHint, keys |-> <<>>, key |-> "",
   value |-> GoNil, kv |-> EmptyMap, exp |-> <<>>, res |-> NilRes("nil", <<>>),
   err |-> "nil", pre |-> EmptyMap]

\* no call of the accessor is in progress
Idle == hret.op = "none"

GetAct(T, hint, keys, ord) ==
  /\ Idle
  /\ LET r == Get(T, hint, [store |-> store, ttl |-> ttl], keys, ord)
     IN hret' = [NoHRet EXCEPT !.op = "Get", !.T = T, !.hint = hint, !.keys = keys,
                               !.res = r, !.err = r.err, !.pre = store]
  /\ UNCHANGED <<store, ttl>>
  /\ UNCHANGED <<calls, rankingVars>>

SetAct(hint, key, value, expiration) ==
  /\ Idle
  /\ LET r == Set(hint, [store |-> store, ttl |-> ttl], key, value, expiration)
     IN /\ store' = r.db.store
        /\ ttl' = r.db.ttl
        /\ hret' = [NoHRet EXCEPT !.op = "Set", !.hint = hint, !.key = key,
                                  !.value = value, !.exp = expiration, !.err = r.err,
                                  !.pre = store]
  /\ UNCHANGED <<calls, rankingVars>>

MSetAct(hint, keyValues, expiration) ==
  /\ Idle
  /\ LET r == MSet(hint, [store |-> store, ttl |-> ttl], keyValues, expiration)
     IN /\ store' = r.db.store
        /\ ttl' = r.db.ttl
        /\ hret' = [NoHRet EXCEPT !.op = "MSet", !.hint = hint, !.kv = keyValues,
                                  !.exp = expiration, !.err = r.err, !.pre = store]
  /\ UNCHANGED <<calls, rankingVars>>

\* the caller takes the result; the next call can start
HReturn ==
  /\ hret.op # "none"
  /\ hret' = NoHRet
  /\ UNCHANGED <<store, ttl>>
  /\ UNCHANGED <<calls, rankingVars>>

\* ---- single-key Set on the LIST and SET path, store call by store call,
\* for clients that work on one key at the same time
Writers == 1..NumWriters

\* the client that reads
Reader == 0

Clients == Writers \cup {Reader}

StepKey == "a"

StepQKey == addKeyPrefix(<<StepKey>>)[1]

StepValues == {GoSlice("[]interface{}", <<>>), GoSlice("[]interface{}", <<"x">>),
               GoSlice("[]interface{}", <<"1">>)}

NoCall ==
  [pc |-> "idle", hint |-> NoHint, value |-> GoNil, expi |-> 0, err |-> "nil",
   pre |-> NoValue, alone |-> TRUE, res |-> NilRes("nil", <<>>)]

InFlight(c) == calls[c].pc \in {"del", "push", "expire"}

\* Set checks its arguments and calls setList / setSet, which asserts the
\* value and qualifies the key
StartSet(c, hint, value, expiration) ==
  /\ calls[c].pc = "idle"
  /\ hint \in {LIST, SET}
  /\ value.type = "[]interface{}"
  /\ calls' = [x \in Clients |->
                 IF x = c
                 THEN [NoCall EXCEPT !.pc = "del", !.hint = hint, !.value = value,
                                     !.expi = Expi(expiration),
                                     !.pre = store[StepQKey],
                                     !.alone = \A y \in Clients \ {c} : ~InFlight(y)]
                 ELSE IF InFlight(x) THEN [calls[x] EXCEPT !.alone = FALSE]
                 ELSE calls[x]]
  /\ UNCHANGED <<store, ttl, hret>>
  /\ UNCHANGED rankingVars

StepDel_Mut(c, fail) ==
  /\ calls[c].pc = "del"
  /\ IF fail
     THEN /\ calls' = [calls EXCEPT ![c].pc = "push"]
          /\ UNCHANGED <<store, ttl>>
     ELSE LET r == CmdDel([store |-> store, ttl |-> ttl], StepQKey)
          IN /\ store' = r.db.store
             /\ ttl' = r.db.ttl
             /\ calls' = [calls EXCEPT ![c].pc = "push"]
  /\ UNCHANGED hret
  /\ UNCHANGED rankingVars

\* Client(ctx).Del; fail: the call to the store fails and is not applied
StepDel(c, fail) ==
  /\ calls[c].pc = "del"
  /\ IF fail
     THEN /\ calls' = [calls EXCEPT ![c].pc = "done", ![c].err = "io"]
          /\ UNCHANGED <<store, ttl>>
     ELSE LET r == CmdDel([store |-> store, ttl |-> ttl], StepQKey)
          IN /\ store' = r.db.store
             /\ ttl' = r.db.ttl
             /\ calls' = [calls EXCEPT ![c].pc = "push"]
  /\ UNCHANGED hret
  /\ UNCHANGED rankingVars

\* Client(ctx).RPush / SAdd, then setExpiration when no ttl is to be set
StepPush(c, fail) ==
  /\ calls[c].pc = "push"
  /\ IF fail
     THEN /\ calls' = [calls EXCEPT ![c].pc = "done", ![c].err = "io"]
          /\ UNCHANGED <<store, ttl>>
     ELSE LET db == [store |-> store, ttl |-> ttl]
              r == IF calls[c].hint = LIST
                   THEN CmdRPush(db, StepQKey, calls[c].value.l)
                   ELSE CmdSAdd(db, StepQKey, calls[c].value.l)
          IN IF r.err # "nil"
             THEN /\ calls' = [calls EXCEPT ![c].pc = "done", ![c].err = r.err]
                  /\ UNCHANGED <<store, ttl>>
             ELSE /\ store' = r.db.store
                  /\ ttl' = r.db.ttl
                  /\ calls' = [calls EXCEPT
                                 ![c].pc = IF calls[c].expi = 0 THEN "done" ELSE "expire"]
  /\ UNCHANGED hret
  /\ UNCHANGED rankingVars

\* setExpiration with a ttl: Client(ctx).Expire
StepExpire(c, fail) ==
  /\ calls[c].pc = "expire"
  /\ IF fail
     THEN /\ calls' = [calls EXCEPT ![c].pc = "done", ![c].err = "io"]
          /\ UNCHANGED <<store, ttl>>
     ELSE LET r == setExpiration([store |-> store, ttl |-> ttl], StepQKey,
                                 calls[c].expi)
          IN /\ store' = r.db.store
             /\ ttl' = r.db.ttl
             /\ calls' = [calls EXCEPT ![c].pc = "done", ![c].err = r.err]
  /\ UNCHANGED hret
  /\ UNCHANGED rankingVars

\* a single-key Get with the LIST or SET hint: one read command
StepGet(c, hint, ord) ==
  /\ calls[c].pc = "idle"
  /\ hint \in {LIST, SET}
  /\ LET r == Get("[]interface{}", hint, [store |-> store, ttl |-> ttl], <<StepKey>>, ord)
     IN calls' = [calls EXCEPT ![c] = [NoCall EXCEPT !.pc = "done", !.hint = hint,
                                                     !.res = r, !.err = r.err]]
  /\ UNCHANGED <<store, ttl, hret>>
  /\ UNCHANGED rankingVars

\* the call returns to its caller
StepReturn(c) ==
  /\ calls[c].pc = "done"
  /\ calls' = [calls EXCEPT ![c] = NoCall]
  /\ UNCHANGED <<store, ttl, hret>>
  /\ UNCHANGED rankingVars

\* ------------------------------------------------------------ specifications
InitRanking ==
  /\ board = EmptyMap
  /\ boardTtl = 0
  /\ ret = NoRet
  /\ store = [k \in QKeys |-> NoValue]
  /\ ttl = [k \in QKeys |-> 0]
  /\ hret = NoHRet
  /\ calls = [c \in Clients |-> NoCall]

\* the store is empty, or holds a board the ranking wrote
InitHandler ==
  /\ board = EmptyMap
  /\ boardTtl = 0
  /\ ret = NoRet
  /\ store \in {[k \in QKeys |-> NoValue],
                [k \in QKeys |-> IF k = "p.p.a" THEN BoardValue ELSE NoValue]}
  /\ ttl = [k \in QKeys |-> 0]
  /\ hret = NoHRet
  /\ calls = [c \in Clients |-> NoCall]

RankingNext ==
  \/ \E m \in Members, s \in ScoreRange, k \in Kinds : Upsert(m, s, k)
  \/ \E order \in Orders, k \in Kinds :
       \E ms \in [Range(order) -> ScoreRange \cup {NaN}] : UpsertMulti(ms, k, order)
  \/ \E m \in Members, d \in Deltas : IncrBy(m, d)
  \/ \E order \in Orders :
       \E ms \in [Range(order) -> Deltas \cup {NaN}] : IncrByMulti(ms, order)
  \/ \E m \in Members : Remove(m)
  \/ \E n \in TopNs, o \in OrderBys : Top(n, o)
  \/ \E m \in Members : Score(m)
  \/ \E ms \in MemberLists : Scores(ms)
  \/ Delete
  \/ \E t \in 0..MaxTtl : Expire(t)
  \/ Return

SpecRanking == InitRanking /\ [][RankingNext]_vars

HandlerNext ==
  \/ /\ Idle
     /\ \E T \in Types, hint \in Hints, keys \in KeyLists :
          \E ord \in IF hint = SET THEN ElemOrders ELSE {<<"1", "x">>} :
            GetAct(T, hint, keys, ord)
  \/ /\ Idle
     /\ \E hint \in Hints, key \in SetKeys, value \in Values, e \in Expirations :
          SetAct(hint, key, value, e)
  \/ /\ Idle
     /\ \E hint \in Hints, kv \in Batches, e \in Expirations : MSetAct(hint, kv, e)
  \/ HReturn

SpecHandler == InitHandler /\ [][HandlerNext]_vars

\* the reads of the board and of the accessor, over boards and stores that a
\* few writes build; one call at a time
ReadsNext ==
  \/ /\ Idle /\ ret.op = "none"
     /\ \E m \in Members, s \in 1..MaxScore : Upsert(m, s, <<>>)
  \/ /\ Idle /\ ret.op = "none"
     /\ \E n \in TopNs, o \in OrderBys : Top(n, o)
  \/ /\ Idle /\ ret.op = "none"
     /\ \E m \in Members : Score(m)
  \/ /\ Idle /\ ret.op = "none"
     /\ \E ms \in MemberLists : Scores(ms)
  \/ Return
  \/ /\ Idle /\ ret.op = "none"
     /\ \E hint \in Hints, value \in Values : SetAct(hint, "a", value, <<1, 1>>)
  \/ /\ Idle /\ ret.op = "none"
     /\ \E T \in Types, hint \in Hints, keys \in KeyLists :
          \E ord \in IF hint = SET THEN ElemOrders ELSE {<<"1", "x">>} :
            GetAct(T, hint, keys, ord)
  \/ HReturn

SpecReads == InitHandler /\ [][ReadsNext]_vars

\* one client sets a list or a set again and again; any store call can fail
FirstWriter == 1

StepsNext ==
  \/ \E hint \in {LIST, SET}, value \in StepValues, e \in Expirations :
       StartSet(FirstWriter, hint, value, e)
  \/ \E fail \in BOOLEAN : StepDel(FirstWriter, fail)
  \/ \E fail \in BOOLEAN : StepPush(FirstWriter, fail)
  \/ \E fail \in BOOLEAN : StepExpire(FirstWriter, fail)
  \/ StepReturn(FirstWriter)

SpecSteps == InitRanking /\ [][StepsNext]_vars

\* the writers set a list or a set on one key and the reader reads it, their
\* store calls interleaved; no store call fails
ConcNext ==
  \/ \E c \in Writers, hint \in {LIST, SET}, value \in StepValues :
       StartSet(c, hint, value, <<>>)
  \/ \E c \in Writers : StepDel(c, FALSE)
  \/ \E c \in Writers : StepPush(c, FALSE)
  \/ \E hint \in {LIST, SET}, ord \in ElemOrders : StepGet(Reader, hint, ord)
  \/ \E c \in Clients : StepReturn(c)

SpecConc == InitRanking /\ [][ConcNext]_vars

\* ----------------------------------------------------------------- claims

PrevScore(z, m) == IF m \in DOMAIN z THEN z[m] ELSE 0

Min(a, b) == IF a < b THEN a ELSE b

\* C1: Upsert(m, x) on a member at score s sets the score to x only if x > s
\* under GreaterThan (or no kind), only if x < s under LessThan, and keeps s
\* otherwise; a member that is not in the board is inserted at x.
C1_ConditionalUpsert ==
  [][ret'.op = "Upsert" =>
       LET m == ret'.member
           x == ret'.score
           k == ret'.kind
       IN /\ ret'.err = "nil"
          /\ m \in DOMAIN board'
          /\ m \notin DOMAIN board => board'[m] = x
          /\ (m \in DOMAIN board /\ k \in {<<>>, <<Upsert_GreaterThan>>}) =>
               board'[m] = (IF x > board[m] THEN x ELSE board[m])
          /\ (m \in DOMAIN board /\ k = <<Upsert_LessThan>>) =>
               board'[m] = (IF x < board[m] THEN x ELSE board[m])]_vars

\* an Upsert with no kind met a member with a higher score and left it
C1_Witness ==
  /\ ret.op = "Upsert"
  /\ ret.kind = <<>>
  /\ ret.member \in DOMAIN board
  /\ board[ret.member] > ret.score

\* C2: Top(n), n >= 1, returns min(n, size) members, each with its current
\* score, and none of them is beaten by a member that is not returned:
\* descending by default, ascending with orderBy = false.
C2_TopOrder ==
  (ret.op = "Top" /\ ret.n >= 1) =>
    /\ ret.err = "nil"
    /\ ~ret.isNil
    /\ DOMAIN ret.map \subseteq DOMAIN board
    /\ Cardinality(DOMAIN ret.map) = Min(ret.n, Cardinality(DOMAIN board))
    /\ \A m \in DOMAIN ret.map : ret.map[m] = board[m]
    /\ \A m \in DOMAIN ret.map : \A x \in DOMAIN board \ DOMAIN ret.map :
         IF ret.orderBy = <<FALSE>> THEN board[m] <= board[x]
         ELSE board[m] >= board[x]

\* an ascending Top(2) of three members left out a member of a higher score
C2_Witness ==
  /\ ret.op = "Top"
  /\ ret.n = 2
  /\ ret.orderBy = <<FALSE>>
  /\ Cardinality(DOMAIN board) = 3
  /\ \E m \in DOMAIN ret.map : \E x \in DOMAIN board \ DOMAIN ret.map : board[m] < board[x]

\* C3: IncrBy(m, d) sets m's score to its previous score (0 if absent) plus
\* d and returns it; IncrByMulti returns, for every member of increments,
\* that member's new score.
C3_IncrBy ==
  [][/\ (ret'.op = "IncrBy" /\ ret'.err = "nil") =>
          /\ ret'.member \in DOMAIN board'
          /\ board'[ret'.member] = PrevScore(board, ret'.member) + ret'.score
          /\ ret'.num = PrevScore(board, ret'.member) + ret'.score
     /\ (ret'.op = "IncrByMulti" /\ ret'.err = "nil") =>
          /\ ~ret'.isNil
          /\ DOMAIN ret'.map = DOMAIN ret'.req
          /\ \A m \in DOMAIN ret'.req :
               /\ ret'.map[m] = PrevScore(board, m) + ret'.req[m]
               /\ m \in DOMAIN board'
               /\ board'[m] = ret'.map[m]]_vars

\* IncrByMulti of two members: one was absent (new score = increment), the
\* other was present with a non-zero score
C3_Witness ==
  /\ ret.op = "IncrByMulti"
  /\ ret.err = "nil"
  /\ \E m1, m2 \in DOMAIN ret.req :
       /\ m1 # m2
       /\ ret.map[m1] = ret.req[m1]
       /\ ret.req[m1] # 0
       /\ ret.map[m2] # ret.req[m2]
       /\ ret.req[m2] # 0

\* C4: Scores(members...) returns a nil error and a non-nil mapping with an
\* entry for every requested member: its score, or 0 if it is absent.
C4_ScoresComplete ==
  ret.op = "Scores" =>
    /\ ret.err = "nil"
    /\ ~ret.isNil
    /\ DOMAIN ret.map = Range(ret.list)
    /\ \A m \in Range(ret.list) : ret.map[m] = PrevScore(board, m)

\* C5: Score(member) returns 0 and a nil error for a member that is not in
\* the board, and the member's score otherwise.
C5_ScoreAbsentZero ==
  ret.op = "Score" =>
    /\ ret.err = "nil"
    /\ ret.num = PrevScore(board, ret.member)

\* Score of an absent member on a board that has other members
C5_Witness ==
  /\ ret.op = "Score"
  /\ ret.member \notin DOMAIN board
  /\ DOMAIN board # {}
  /\ ret.num = 0
  /\ ret.err = "nil"

\* the qualified key of a logical key
QKey(k) == addKeyPrefix(<<k>>)[1]

\* the structure kind the classifier of Get selects for T and the hint
ReadKind(T, hint) ==
  CASE Kind(T) \in {"Map", "Struct"} /\ hint = HASH -> "hash"
    [] Kind(T) = "Slice" /\ hint = SET -> "set"
    [] Kind(T) = "Slice" /\ hint = ZSET -> "zset"
    [] Kind(T) = "Slice" /\ hint = LIST -> "list"
    [] OTHER -> "string"

\* C6: Get[T] with exactly one key that holds nothing returns a nil result and
\* a nil error, whatever structure kind T and the hint select.
C6_MissingKeyNil ==
  (hret.op = "Get" /\ Len(hret.keys) = 1 /\ hret.pre[QKey(hret.keys[1])].kind = "none") =>
    /\ hret.err = "nil"
    /\ hret.res.isNil

\* the values a stored value of the selected kind can decode to as T
Decodings(T, v) ==
  CASE v.kind = "string" -> {StrConv(T, v.str)}
    [] v.kind = "hash" -> {[val |-> DecodeHash(T, v.hash), err |-> "nil"]}
    [] v.kind = "list" -> {DecodeSlice(T, v.list)}
    [] v.kind = "set" -> {DecodeSlice(T, InOrder(v.set, o)) : o \in ElemOrders}
    [] v.kind = "zset" ->
         {DecodeSlice(T, CmdZRangeArgs([store |-> [k \in {"z"} |-> v]], "z", 0, 0 - 1, TRUE).l)}

\* the key holds nothing, or a value of the selected kind that decodes as T
Readable(T, hint, v) ==
  \/ v.kind = "none"
  \/ /\ v.kind = ReadKind(T, hint)
     /\ \A d \in Decodings(T, v) : d.err = "nil"

\* C7: Get[T] with two or more keys, each holding nothing or a value of the
\* selected kind, returns a mapping whose keys are exactly the requested
\* logical keys; a key that holds a value maps to that value decoded and a key
\* that holds nothing maps to nil.
C7_BatchComplete ==
  (/\ hret.op = "Get"
   /\ Len(hret.keys) >= 2
   /\ \A i \in DOMAIN hret.keys : Readable(hret.T, hret.hint, hret.pre[QKey(hret.keys[i])])) =>
    /\ hret.err = "nil"
    /\ hret.res.isMap
    /\ DOMAIN hret.res.map = Range(hret.keys)
    /\ \A k \in Range(hret.keys) :
         LET v == hret.pre[QKey(k)]
         IN IF v.kind = "none" THEN hret.res.map[k].isNil
            ELSE /\ ~hret.res.map[k].isNil
                 /\ \E d \in Decodings(hret.T, v) : hret.res.map[k].val = d.val

C7_Witness ==
  /\ hret.op = "Get"
  /\ hret.hint = LIST
  /\ hret.T = "[]interface{}"
  /\ hret.keys = <<"p.a", "a">>
  /\ hret.pre[QKey("p.a")].kind = "list"
  /\ hret.pre[QKey("a")].kind = "none"
  /\ hret.res.isMap
  /\ hret.res.map["a"].isNil
  /\ hret.res.map["p.a"].val.l = hret.pre[QKey("p.a")].list

\* C8: when Set with the LIST or the SET hint and a slice value returns nil,
\* the key holds exactly the elements of that value (for LIST in its order),
\* whatever the key held before.
C8_DestructiveRewrite ==
  [][(/\ hret'.op = "Set"
      /\ hret'.err = "nil"
      /\ hret'.hint \in {LIST, SET}
      /\ Kind(hret'.value.type) = "Slice") =>
       IF hret'.hint = LIST
       THEN store'[QKey(hret'.key)] = ListValue(hret'.value.l)
       ELSE store'[QKey(hret'.key)] = SetValue(Range(hret'.value.l))]_vars

C8_Witness ==
  /\ hret.op = "Set"
  /\ hret.err = "nil"
  /\ hret.hint = LIST
  /\ hret.pre[QKey(hret.key)].kind = "list"
  /\ \E e \in Range(hret.pre[QKey(hret.key)].list) : e \notin Range(hret.value.l)
  /\ store[QKey(hret.key)].list = hret.value.l

\* the same value, an unordered collection compared without its order
SameValue(hint, got, want) ==
  IF hint = SET /\ Kind(want.type) = "Slice"
  THEN got.type = want.type /\ Range(got.l) = Range(want.l)
  ELSE got = want

\* the logical keys of a batch, in a sequence
RECURSIVE KeySeq(_)
KeySeq(S) ==
  IF S = {} THEN <<>>
  ELSE LET k == CHOOSE x \in S : TRUE IN <<k>> \o KeySeq(S \ {k})

\* C9: when Set(k, v) returns nil, Get[T](k) with T the type of v and the
\* same hint returns v and a nil error; when MSet of two keys with values of
\* one type returns nil, Get[T] of the two keys returns the written mapping.
C9_RoundTrip ==
  [][/\ (hret'.op = "Set" /\ hret'.err = "nil") =>
          \A o \in ElemOrders :
            LET r == Get(hret'.value.type, hret'.hint, [store |-> store', ttl |-> ttl'],
                         <<hret'.key>>, o)
            IN /\ r.err = "nil"
               /\ ~r.isNil
               /\ SameValue(hret'.hint, r.val, hret'.value)
     /\ (/\ hret'.op = "MSet"
         /\ hret'.err = "nil"
         /\ Cardinality(DOMAIN hret'.kv) >= 2
         /\ \A k1, k2 \in DOMAIN hret'.kv : hret'.kv[k1].type = hret'.kv[k2].type) =>
          \A o \in ElemOrders :
            LET keys == KeySeq(DOMAIN hret'.kv)
                r == Get(hret'.kv[keys[1]].type, hret'.hint,
                         [store |-> store', ttl |-> ttl'], keys, o)
            IN /\ r.err = "nil"
               /\ r.isMap
               /\ DOMAIN r.map = DOMAIN hret'.kv
               /\ \A k \in DOMAIN hret'.kv :
                    /\ ~r.map[k].isNil
                    /\ SameValue(hret'.hint, r.map[k].val, hret'.kv[k])]_vars

\* the structure kind the classifier of Set selects for a value and the hint
WriteKind(value, hint) ==
  CASE Kind(value.type) \in {"Map", "Struct"} /\ hint = HASH -> "hash"
    [] Kind(value.type) = "Slice" /\ hint = SET -> "set"
    [] Kind(value.type) = "Slice" /\ hint = LIST -> "list"
    [] OTHER -> "string"

\* C10: MSet of a non-empty batch whose values have one shape writes every key
\* as the structure kind Set selects for that shape and the hint: a hash for
\* maps with HASH, a list for slices with LIST, a set for slices with SET.
C10_MSetDispatch ==
  [][(/\ hret'.op = "MSet"
      /\ DOMAIN hret'.kv # {}
      /\ hret'.hint \in {HASH, LIST, SET}
      /\ \A k \in DOMAIN hret'.kv : WriteKind(hret'.kv[k], hret'.hint) = hret'.hint) =>
       /\ hret'.err = "nil"
       /\ \A k \in DOMAIN hret'.kv : store'[QKey(k)].kind = hret'.hint]_vars

\* C11: when Set returns nil, the key carries the expiration that was passed
\* as the one ttl argument, and never expires when no ttl was passed.
C11_SetExpiration ==
  [][(hret'.op = "Set" /\ hret'.err = "nil") =>
       /\ Len(hret'.exp) = 1 => ttl'[QKey(hret'.key)] = hret'.exp[1]
       /\ Len(hret'.exp) = 0 => ttl'[QKey(hret'.key)] = 0]_vars

\* C12: Get reads and Set writes the structure kind that the shape of the
\* type and the hint select: STRING for text whatever the hint, HASH for a map
\* or struct only with the HASH hint, SET, sorted set (Get only) or LIST for a
\* slice only with that hint, STRING in every other case; a hint that does not
\* fit the shape changes nothing: the call does what it does without a hint and
\* does not panic.
C12_ClassifierPrecedence ==
  [][/\ (hret'.op = "Get" /\ hret'.keys # <<>>) =>
          LET T == hret'.T
              db == [store |-> store, ttl |-> ttl]
              keys == hret'.keys
              path == ReadKind(T, hret'.hint)
          IN /\ path = "hash" => hret'.res = getHash(T, db, keys)
             /\ path = "list" => hret'.res = getList(T, db, keys)
             /\ path = "set" => \E o \in ElemOrders : hret'.res = getSet(T, db, keys, o)
             /\ path = "zset" => hret'.res = getSortedSet(T, db, keys)
             /\ path = "string" =>
                  /\ hret'.res = IF Kind(T) = "String" THEN getString(db, keys)
                                 ELSE getVariousKind(T, db, keys)
                  /\ hret'.res = Get(T, NoHint, db, keys, <<>>)
                  /\ hret'.err # "panic"
     /\ (hret'.op = "Set" /\ hret'.key # "" /\ hret'.value.type # "nil") =>
          LET db == [store |-> store, ttl |-> ttl]
              expi == Expi(hret'.exp)
              path == WriteKind(hret'.value, hret'.hint)
              r == CASE path = "hash" -> setHash(db, hret'.key, hret'.value, expi)
                     [] path = "list" -> setList(db, hret'.key, hret'.value, expi)
                     [] path = "set" -> setSet(db, hret'.key, hret'.value, expi)
                     [] OTHER -> setVariousKind(db, hret'.key, hret'.value, expi)
          IN /\ hret'.err = r.err
             /\ store' = r.db.store
             /\ ttl' = r.db.ttl
             /\ path = "string" =>
                  /\ hret'.err # "panic"
                  /\ r = Set(NoHint, db, hret'.key, hret'.value, hret'.exp)
             /\ (hret'.err = "nil" /\ path # "string") => store'[QKey(hret'.key)].kind = path
             /\ (hret'.err = "nil" /\ path = "string") =>
                  store'[QKey(hret'.key)].kind = "string"]_vars

C12_Witness ==
  /\ hret.op = "Set"
  /\ hret.hint = HASH
  /\ hret.value.type = "string"
  /\ hret.err = "nil"
  /\ hret.pre[QKey(hret.key)].kind = "hash"
  /\ store[QKey(hret.key)] = StrValue(hret.value.s)

\* C13: Get with no key, and Set with an empty key or a nil value, return the
\* error of the argument check, and the store and its expirations are as
\* before the call.
C13_ArgumentValidation ==
  [][/\ (hret'.op = "Get" /\ hret'.keys = <<>>) =>
          /\ hret'.err = "keys is empty"
          /\ hret'.res.isNil
          /\ store' = store /\ ttl' = ttl
     /\ (hret'.op = "Set" /\ hret'.key = "") =>
          /\ hret'.err = "key is empty"
          /\ store' = store /\ ttl' = ttl
     /\ (hret'.op = "Set" /\ hret'.key # "" /\ hret'.value.type = "nil") =>
          /\ hret'.err = "value is nil"
          /\ store' = store /\ ttl' = ttl]_vars

C13_Witness ==
  /\ hret.op = "Set"
  /\ hret.key # ""
  /\ hret.value.type = "nil"
  /\ hret.err = "value is nil"
  /\ hret.pre[QKey(hret.key)].kind # "none"
  /\ store = hret.pre

\* C14: Set of a slice value with the ZSET hint returns an error and leaves
\* the store and its expirations as they were.
C14_SetSortedSetRejected ==
  [][(/\ hret'.op = "Set"
      /\ hret'.key # ""
      /\ hret'.value.type # "nil"
      /\ Kind(hret'.value.type) = "Slice"
      /\ hret'.hint = ZSET) =>
       /\ hret'.err \notin {"nil", "panic"}
       /\ store' = store
       /\ ttl' = ttl]_vars

\* C15: when the command of one member of UpsertMulti or IncrByMulti fails
\* (a score the store rejects), the call returns no error, the commands of the
\* other members take effect, and IncrByMulti returns the new score of every
\* member whose increment succeeded and no entry for a member whose increment
\* failed.
C15_BatchAvailability ==
  [][/\ ret'.op = "UpsertMulti" =>
          /\ ret'.err = "nil"
          /\ \A m \in DOMAIN ret'.req :
               ret'.req[m] # NaN =>
                 /\ m \in DOMAIN board'
                 /\ board'[m] = ZAddArgs(board, m, ret'.req[m], GT(ret'.kind), LT(ret'.kind))[m]
     /\ ret'.op = "IncrByMulti" =>
          /\ ret'.err = "nil"
          /\ ~ret'.isNil
          /\ DOMAIN ret'.map = {m \in DOMAIN ret'.req : ret'.req[m] # NaN}
          /\ \A m \in DOMAIN ret'.map :
               /\ ret'.map[m] = PrevScore(board, m) + ret'.req[m]
               /\ m \in DOMAIN board'
               /\ board'[m] = ret'.map[m]]_vars

\* C16: a multi-key Get on the HASH, LIST, SET or sorted-set path returns no
\* error and a mapping of every requested key; a key whose lookup fails (it
\* holds another kind) or whose value does not decode as T maps to nil, and
\* every other key that holds a value maps to that value decoded.
C16_BatchReadIsolation ==
  (/\ hret.op = "Get"
   /\ Len(hret.keys) >= 2
   /\ ReadKind(hret.T, hret.hint) # "string") =>
    /\ hret.err = "nil"
    /\ hret.res.isMap
    /\ DOMAIN hret.res.map = Range(hret.keys)
    /\ \A k \in Range(hret.keys) :
         LET v == hret.pre[QKey(k)]
         IN IF v.kind = ReadKind(hret.T, hret.hint)
               /\ \A d \in Decodings(hret.T, v) : d.err = "nil"
            THEN /\ ~hret.res.map[k].isNil
                 /\ \E d \in Decodings(hret.T, v) : hret.res.map[k].val = d.val
            ELSE hret.res.map[k].isNil

\* the error of the write commands MSet pipelines for key k on the path of
\* the hint: HMSET for a hash, DEL and RPUSH for a list, DEL and SADD for a set
BatchCmdErr(hint, db, k, value) ==
  CASE hint = HASH -> CmdHMSet(db, QKey(k), value.m).err
    [] hint = LIST -> CmdRPush(CmdDel(db, QKey(k)).db, QKey(k), value.l).err
    [] hint = SET -> CmdSAdd(CmdDel(db, QKey(k)).db, QKey(k), value.l).err

\* C17: when MSet on the HASH, LIST or SET path pipelines a command that
\* fails, it returns the error of a failing command; it returns nil only when
\* no command failed.
C17_BatchWriteIntegrity ==
  [][(/\ hret'.op = "MSet"
      /\ hret'.hint \in {HASH, LIST, SET}
      /\ DOMAIN hret'.kv # {}
      /\ \A k \in DOMAIN hret'.kv : WriteKind(hret'.kv[k], hret'.hint) = hret'.hint) =>
       LET db == [store |-> store, ttl |-> ttl]
           errs == {BatchCmdErr(hret'.hint, db, k, hret'.kv[k]) : k \in DOMAIN hret'.kv}
       IN /\ errs # {"nil"} => hret'.err \in errs \ {"nil"}
          /\ hret'.err = "nil" => errs = {"nil"}]_vars

\* C18: Set with a non-empty key and a non-nil value whose shape fits the
\* hint (a map or struct with HASH, a slice of any element type with LIST or
\* SET), and MSet of such values, return nil or an error: they never panic.
C18_NoPanic ==
  /\ (/\ hret.op = "Set"
      /\ hret.key # ""
      /\ hret.value.type # "nil"
      /\ WriteKind(hret.value, hret.hint) = hret.hint) => hret.err # "panic"
  /\ (/\ hret.op = "MSet"
      /\ \A k \in DOMAIN hret.kv : WriteKind(hret.kv[k], hret.hint) = hret.hint) =>
       hret.err # "panic"

\* C19: removing the prefix from the qualified key of a logical key gives
\* back that key, also when the key itself begins with the prefix and a dot;
\* so the keys of the mapping a multi-key Get returns are the logical keys
\* that were passed.
C19_KeySymmetry ==
  /\ \A k \in LogicalKeys :
       /\ QKey(k) = KeyPrefix \o "." \o k
       /\ removeKeyPrefix(<<QKey(k)>>) = <<k>>
  /\ (hret.op = "Get" /\ Len(hret.keys) >= 2) =>
       /\ removeKeyPrefix(addKeyPrefix(hret.keys)) = hret.keys
       /\ hret.res.isMap => DOMAIN hret.res.map = Range(hret.keys)

C19_Witness ==
  /\ hret.op = "Get"
  /\ hret.keys = <<"a", "p.a">>
  /\ SubSeq("p.a", 1, Len(KeyPrefix) + 1) = KeyPrefix \o "."
  /\ hret.res.isMap
  /\ DOMAIN hret.res.map = {"a", "p.a"}
  /\ hret.pre[QKey("p.a")].kind = "string"
  /\ ~hret.res.map["p.a"].isNil

\* C20: a call of Get, Top, Score or Scores leaves the store, the board and
\* their expirations as they were before the call.
C20_ReadsNoEffect ==
  [][((hret.op = "none" /\ hret'.op = "Get")
      \/ (ret.op = "none" /\ ret'.op \in {"Top", "Score", "Scores"})) =>
       /\ store' = store
       /\ ttl' = ttl
       /\ board' = board
       /\ boardTtl' = boardTtl]_vars

C20_Witness ==
  /\ ret.op = "Scores"
  /\ \E i \in DOMAIN ret.list : ret.list[i] \in DOMAIN board
  /\ store[QKey("a")].kind = "list"
  /\ ttl[QKey("a")] # 0

\* C21: when Set of a map or struct with the HASH hint returns nil on a key
\* that holds a hash, the hash at the key has exactly the fields of the value
\* just written.
C21_HashSetOverwrites ==
  [][(/\ hret'.op = "Set"
      /\ hret'.err = "nil"
      /\ hret'.hint = HASH
      /\ Kind(hret'.value.type) \in {"Map", "Struct"}
      /\ store[QKey(hret'.key)].kind = "hash") =>
       store'[QKey(hret'.key)] = HashValue(hret'.value.m)]_vars

\* C22: when MSet returns nil, every key of the batch holds a value; it
\* carries the expiration that was passed as the one ttl argument, and never
\* expires when no ttl was passed.
C22_MSetExpiration ==
  [][(hret'.op = "MSet" /\ hret'.err = "nil") =>
       \A k \in DOMAIN hret'.kv :
         /\ store'[QKey(k)].kind # "none"
         /\ Len(hret'.exp) = 1 => ttl'[QKey(k)] = hret'.exp[1]
         /\ Len(hret'.exp) = 0 => ttl'[QKey(k)] = 0]_vars

\* the value a successful push of the call of client c leaves at the key
Pushed(c) ==
  IF calls[c].hint = LIST THEN ListValue(calls[c].value.l)
  ELSE SetValue(Range(calls[c].value.l))

\* C23: a single-key Set on the LIST or SET path is the store calls delete,
\* push, expire, in that order, and ends at the first that fails: a failed
\* delete leaves the store as it was and nothing is pushed; a failed push
\* leaves the key absent; a failed expire leaves the key with the new elements
\* and no expiration; the call returns that error and no step is done twice.
C23_SequentialSteps ==
  [][\A c \in Writers :
       LET pc == calls[c].pc
           pc2 == calls'[c].pc
           err2 == calls'[c].err
       IN /\ <<pc, pc2>> \in {<<"idle", "idle">>, <<"idle", "del">>, <<"del", "del">>,
                              <<"del", "push">>, <<"del", "done">>, <<"push", "push">>,
                              <<"push", "expire">>, <<"push", "done">>,
                              <<"expire", "expire">>, <<"expire", "done">>,
                              <<"done", "done">>, <<"done", "idle">>}
          /\ (pc = "del" /\ pc2 = "done") =>
               /\ err2 # "nil"
               /\ store' = store /\ ttl' = ttl
          /\ (pc = "del" /\ pc2 = "push") => store'[StepQKey] = NoValue
          /\ (pc = "push" /\ pc2 = "done" /\ err2 # "nil") => store'[StepQKey] = NoValue
          /\ (pc = "push" /\ pc2 \in {"expire", "done"} /\ err2 = "nil") =>
               /\ store'[StepQKey] = Pushed(c)
               /\ ttl'[StepQKey] = 0
               /\ pc2 = "expire" <=> calls[c].expi # 0
          /\ (pc = "expire" /\ pc2 = "done" /\ err2 # "nil") =>
               /\ store'[StepQKey] = Pushed(c)
               /\ ttl'[StepQKey] = 0
          /\ (pc = "expire" /\ pc2 = "done" /\ err2 = "nil") =>
               /\ store'[StepQKey] = Pushed(c)
               /\ ttl'[StepQKey] = calls[c].expi]_vars

C23_Witness ==
  /\ calls[FirstWriter].pc = "done"
  /\ calls[FirstWriter].err = "ERR wrong number of arguments"
  /\ calls[FirstWriter].pre.kind = "list"
  /\ store[StepQKey] = NoValue

\* C24: MSet of a batch of non-empty slices with the LIST or SET hint runs the
\* delete, push and expire of every key as one transaction: when the call is
\* over every key of the batch holds its new elements, none is left deleted
\* and not repopulated, and the call returns nil.
C24_BatchTransaction ==
  [][(/\ hret'.op = "MSet"
      /\ hret'.hint \in {LIST, SET}
      /\ DOMAIN hret'.kv # {}
      /\ \A k \in DOMAIN hret'.kv :
           hret'.kv[k].type = "[]interface{}" /\ Len(hret'.kv[k].l) > 0) =>
       /\ hret'.err = "nil"
       /\ \A k \in DOMAIN hret'.kv :
            store'[QKey(k)] = IF hret'.hint = LIST
                              THEN ListValue(hret'.kv[k].l)
                              ELSE SetValue(Range(hret'.kv[k].l))]_vars

\* what Top(n, orderBy) returns on the board z
TopOf(z, n, orderBy) == ZToMap(ZRangeArgsWithScores(z, 0, n - 1, Rev(orderBy)))

\* C25: after Remove(m) returns nil, m is not in the board (its Score is 0 and
\* no Top result has it) and every other member keeps its score; after
\* Delete() returns nil the board has no member and every Top is empty.
C25_RemoveDeleteFrame ==
  [][/\ (ret'.op = "Remove" /\ ret'.err = "nil") =>
          /\ ret'.member \notin DOMAIN board'
          /\ ZScore(board', ret'.member).val = 0
          /\ \A n \in TopNs, o \in OrderBys : ret'.member \notin DOMAIN TopOf(board', n, o)
          /\ DOMAIN board' = DOMAIN board \ {ret'.member}
          /\ \A m \in DOMAIN board' : board'[m] = board[m]
     /\ (ret'.op = "Delete" /\ ret'.err = "nil") =>
          /\ board' = EmptyMap
          /\ \A n \in TopNs, o \in OrderBys : TopOf(board', n, o) = EmptyMap]_vars

\* a member was removed and another one is still in the board
C25_Witness ==
  /\ ret.op = "Remove"
  /\ ret.err = "nil"
  /\ ret.num = 1
  /\ board # EmptyMap

\* C26: when two Set calls with the LIST hint on one key have run concurrently
\* and both returned nil, the list is the sequence of one of them, whatever
\* the interleaving of their delete and push steps.
C26_ConcurrentSetsOneWins ==
  \A c1, c2 \in Writers :
    (/\ c1 # c2
     /\ calls[c1].pc = "done" /\ calls[c2].pc = "done"
     /\ calls[c1].err = "nil" /\ calls[c2].err = "nil"
     /\ calls[c1].hint = LIST /\ calls[c2].hint = LIST
     /\ ~calls[c1].alone /\ ~calls[c2].alone) =>
      store[StepQKey] \in {ListValue(calls[c1].value.l), ListValue(calls[c2].value.l)}

\* C27: a Get with the LIST (SET) hint that runs while one Set with that
\* hint, and no other, replaces the non-empty elements s1 of the key by the
\* non-empty s2 returns s1 or s2, never the nil or empty reply of an absent key.
C27_ConcurrentGetSeesValue ==
  [][\A w \in Writers :
       (/\ calls[Reader].pc = "idle" /\ calls'[Reader].pc = "done"
        /\ InFlight(w)
        /\ calls[w].alone
        /\ calls[w].hint = calls'[Reader].hint
        /\ Len(calls[w].value.l) > 0
        /\ calls[w].pre.kind = calls[w].hint
        /\ calls[w].pre.list # <<>> \/ calls[w].pre.set # {}) =>
         /\ calls'[Reader].res.err = "nil"
         /\ ~calls'[Reader].res.isNil
         /\ IF calls[w].hint = LIST
            THEN calls'[Reader].res.val.l \in {calls[w].pre.list, calls[w].value.l}
            ELSE Range(calls'[Reader].res.val.l) \in
                   {calls[w].pre.set, Range(calls[w].value.l)}]_vars

\* C28: Top(n), n >= 0, returns a nil error and a non-nil mapping of exactly
\* min(n, number of members of the board) entries: none for n = 0 and none
\* for a board that does not exist.
C28_TopCount ==
  (ret.op = "Top" /\ ret.n >= 0) =>
    /\ ret.err = "nil"
    /\ ~ret.isNil
    /\ Cardinality(DOMAIN ret.map) = Min(ret.n, Cardinality(DOMAIN board))

\* C29: when Get returns, with a value, nil or an error, the caller's keys
\* slice holds the logical keys that were passed, on the single-key and on the
\* multi-key path of every structure kind.
C29_KeysUnchanged ==
  hret.op = "Get" => hret.res.keys = hret.keys

\* the board after Upsert(order[i], members[order[i]], kind) for i = 1, 2, ...
RECURSIVE UpsertSeq(_, _, _, _)
UpsertSeq(z, members, kind, order) ==
  IF order = <<>> THEN z
  ELSE UpsertSeq(ZAddArgs(z, Head(order), members[Head(order)], GT(kind), LT(kind)),
                 members, kind, Tail(order))

\* C30: UpsertMulti(members, kind) with no failing command leaves the board as
\* one Upsert per entry of members does, in any order, and doing the same
\* UpsertMulti again does not change the board.
C30_UpsertMultiAsUpserts ==
  [][(ret'.op = "UpsertMulti" /\ ret'.err = "nil") =>
       \A order \in Orders :
         Range(order) = DOMAIN ret'.req =>
           /\ board' = UpsertSeq(board, ret'.req, ret'.kind, order)
           /\ board' = UpsertSeq(board', ret'.req, ret'.kind, order)]_vars

\* a batch of two: one member keeps its score, the other one gets the new score
C30_Witness ==
  /\ ret.op = "UpsertMulti"
  /\ ret.err = "nil"
  /\ \E m1, m2 \in DOMAIN ret.req :
       /\ m1 # m2
       /\ board[m1] # ret.req[m1]
       /\ board[m2] = ret.req[m2]
====
